---- MODULE Spec2Model ----
(***************************************************************************)
(* Model of the Todo List Manager (src/todo.py): the Task record with its  *)
(* pipe-separated text encoding, and the TodoListManager with its three    *)
(* in-memory lists, the three task files and the menu operations.          *)
(*                                                                         *)
(* Text is a sequence of one-character strings.  A datetime is a count of  *)
(* clock ticks (TicksPerSec ticks to the second); str(datetime) prints the *)
(* whole seconds and, only when it is not zero, the fraction.  An optional *)
(* value is a sequence of length 0 (None) or 1.                            *)
(*                                                                         *)
(* datetime.now() is a clock that never goes back: each reading is at      *)
(* least the one before, also across runs of the program.  The user name   *)
(* and names.txt are left out: no task operation reads them.               *)
(***************************************************************************)
EXTENDS Integers, Sequences, FiniteSets, TLC

\* ------------------------------------------------------------------ bounds
MaxTasks == 2
MaxClock == 1

\* --------------------------------------------------------------- text
TicksPerSec == 2

None == <<>>

Some(v) == <<v>>

Digits == <<"0", "1", "2", "3", "4", "5", "6", "7", "8", "9">>

Whitespace == {" ", "\n"}

Delimiter == "|"

ActiveStr == <<"A", "c", "t", "i", "v", "e">>

CompletedStr == <<"C", "o", "m", "p", "l", "e", "t", "e", "d">>

DeletedStr == <<"D", "e", "l", "e", "t", "e", "d">>

NoneStr == <<"N", "o", "n", "e">>

IsDigit(c) == \E i \in 1..10 : Digits[i] = c

DigitVal(c) == (CHOOSE i \in 1..10 : Digits[i] = c) - 1

\* str(n) for a natural number
RECURSIVE NatToStr(_)
NatToStr(n) ==
    IF n < 10 THEN <<Digits[n + 1]>>
    ELSE NatToStr(n \div 10) \o <<Digits[(n % 10) + 1]>>

\* str(n) for an int
IntToStr(n) == IF n < 0 THEN <<"-">> \o NatToStr(0 - n) ELSE NatToStr(n)

\* str.strip(): drop leading and trailing whitespace
RECURSIVE LStrip(_)
LStrip(s) ==
    IF s # <<>> /\ Head(s) \in Whitespace THEN LStrip(Tail(s)) ELSE s

RECURSIVE RStrip(_)
RStrip(s) ==
    IF s # <<>> /\ s[Len(s)] \in Whitespace
    THEN RStrip(SubSeq(s, 1, Len(s) - 1)) ELSE s

Strip(s) == RStrip(LStrip(s))

AllDigits(s) == s # <<>> /\ \A i \in 1..Len(s) : IsDigit(s[i])

RECURSIVE DigitsVal(_)
DigitsVal(s) ==
    IF s = <<>> THEN 0
    ELSE 10 * DigitsVal(SubSeq(s, 1, Len(s) - 1)) + DigitVal(s[Len(s)])

\* Faulty variant: text that is no integer counts as 0
ParseInt_Lenient(s) ==
    LET t == Strip(s)
    IN  IF AllDigits(t) THEN [ok |-> TRUE, val |-> DigitsVal(t)]
        ELSE [ok |-> TRUE, val |-> 0]

\* int(s): surrounding whitespace and one sign are accepted; anything else
\* raises ValueError (ok = FALSE)
ParseInt(s) ==
    LET t == Strip(s)
        signed == t # <<>> /\ Head(t) \in {"-", "+"}
        body == IF signed THEN Tail(t) ELSE t
    IN  IF AllDigits(body)
        THEN [ok |-> TRUE,
              val |-> IF signed /\ Head(t) = "-" THEN 0 - DigitsVal(body)
                      ELSE DigitsVal(body)]
        ELSE [ok |-> FALSE, val |-> 0]

\* str.split('|'): the fields between the delimiters, at least one
RECURSIVE SplitFrom(_, _, _)
SplitFrom(s, i, cur) ==
    IF i > Len(s) THEN <<cur>>
    ELSE IF s[i] = Delimiter THEN <<cur>> \o SplitFrom(s, i + 1, <<>>)
    ELSE SplitFrom(s, i + 1, Append(cur, s[i]))

Split(s) == SplitFrom(s, 1, <<>>)

\* Faulty variant: the fraction is never printed
DateStr_NoFraction(t) == NatToStr(t \div TicksPerSec)

\* str(datetime): the seconds, then the fraction unless it is zero
DateStr(t) ==
    NatToStr(t \div TicksPerSec)
      \o (IF t % TicksPerSec = 0 THEN <<>>
          ELSE <<".">> \o NatToStr((t % TicksPerSec) * (10 \div TicksPerSec)))

\* datetime.fromisoformat(s): seconds with an optional one-digit fraction
ParseDate(s) ==
    LET dots == {i \in 1..Len(s) : s[i] = "."}
        whole == IF dots = {} THEN s
                 ELSE SubSeq(s, 1, (CHOOSE i \in dots : TRUE) - 1)
        frac == IF dots = {} THEN <<"0">>
                ELSE SubSeq(s, (CHOOSE i \in dots : TRUE) + 1, Len(s))
    IN  IF /\ Cardinality(dots) <= 1
           /\ AllDigits(whole)
           /\ Len(frac) = 1 /\ IsDigit(frac[1])
           /\ (DigitVal(frac[1]) * TicksPerSec) % 10 = 0
        THEN [ok |-> TRUE,
              val |-> DigitsVal(whole) * TicksPerSec
                        + (DigitVal(frac[1]) * TicksPerSec) \div 10]
        ELSE [ok |-> FALSE, val |-> 0]

\* --------------------------------------------------------------- Task
\* Faulty variant: time_finished defaults to the current time as well
Task_BothDefault(task_id, task_name, task_status, time_created, time_finished, clk) ==
    [task_id |-> task_id,
     task_name |-> task_name,
     task_status |-> task_status,
     time_created |-> IF time_created # None THEN time_created ELSE Some(clk),
     time_finished |-> IF time_finished # None THEN time_finished
                       ELSE Some(clk)]

\* Task.__init__: time_created defaults to the current time
Task(task_id, task_name, task_status, time_created, time_finished, clk) ==
    [task_id |-> task_id,
     task_name |-> task_name,
     task_status |-> task_status,
     time_created |-> IF time_created # None THEN time_created ELSE Some(clk),
     time_finished |-> time_finished]

\* Task.to_string
to_string(t) ==
    IntToStr(t.task_id) \o <<Delimiter>> \o t.task_name \o <<Delimiter>>
      \o t.task_status \o <<Delimiter>> \o DateStr(t.time_created[1])
      \o <<Delimiter>>
      \o (IF t.time_finished = None THEN NoneStr
          ELSE DateStr(t.time_finished[1]))

\* Task.from_string: ok = FALSE stands for the ValueError that the unpacking,
\* fromisoformat or int raises
from_string(line) ==
    LET f == Split(Strip(line))
    IN  IF Len(f) # 5 THEN [ok |-> FALSE]
        ELSE LET created == ParseDate(f[4])
                 finished == IF f[5] = NoneStr THEN [ok |-> TRUE, val |-> 0]
                             ELSE ParseDate(f[5])
                 id == ParseInt(f[1])
             IN  IF created.ok /\ finished.ok /\ id.ok
                 THEN [ok |-> TRUE,
                       task |-> Task(id.val, f[2], f[3], Some(created.val),
                                     IF f[5] = NoneStr THEN None
                                     ELSE Some(finished.val), 0)]
                 ELSE [ok |-> FALSE]

\* --------------------------------------------------- TodoListManager
\* What the user can type at the name prompts and at the id prompts
NameInputs == {<<" ">>, <<" ", "a", "|", " ">>}

IdInputs == {NatToStr(i) : i \in 1..(MaxTasks + 1)} \cup {<<" ", "x">>}

FileNames == {"Active.txt", "Completed.txt", "Deleted.txt"}

Categories == {"Active", "Completed", "Deleted"}

VARIABLES
    active_tasks,       \* self.active_tasks
    completed_tasks,    \* self.completed_tasks
    deleted_tasks,      \* self.deleted_tasks
    next_task_id,       \* self.next_task_id
    files,              \* file name -> None (no such file) or Some(lines)
    pc,                 \* "menu": reading a selection; "exited"; "crashed";
                        \* "killed": stopped from outside
    output,             \* the last line the program printed
    clock,              \* the latest value datetime.now() returned
    created_ids,        \* history: the ids add_task has assigned, in order
    restarted,          \* history: this run loaded its lists from the files
    moved_ids,          \* history: the ids completed or deleted, in order
    codec_task,         \* codec check: the Task under test
    codec_line,         \* codec check: None, or Some(its to_string())
    codec_result        \* codec check: None, or Some(from_string of the line)

store_vars == <<active_tasks, completed_tasks, deleted_tasks, next_task_id,
                files, pc, output, clock, created_ids, restarted,
                moved_ids>>

codec_vars == <<codec_task, codec_line, codec_result>>

vars == <<store_vars, codec_vars>>

\* Faulty variants: nothing is removed; the last element is removed
RemoveAt_Keeps(s, i) == s

RemoveAt_Pops(s, i) == SubSeq(s, 1, Len(s) - 1)

\* list.remove(task): the list without the element at position i
RemoveAt(s, i) == SubSeq(s, 1, i - 1) \o SubSeq(s, i + 1, Len(s))

\* Faulty variant: the new name is stored in the wrong attribute
Renamed_WrongField(task, new_name) == [task EXCEPT !.task_status = new_name]

\* edit_task_name: the assignment to the task found
Renamed(task, new_name) == [task EXCEPT !.task_name = new_name]

\* Faulty variant: the completion time is not recorded
Completed_NoTime(task, t) == [task EXCEPT !.task_status = CompletedStr]

\* mark_task_complete: the two assignments to the task found
Completed(task, t) ==
    [task EXCEPT !.task_status = CompletedStr, !.time_finished = Some(t)]

\* Faulty variant: the status is left as it was
Deleted_KeepsStatus(task) == task

\* delete_task: the assignment to the task found
Deleted(task) == [task EXCEPT !.task_status = DeletedStr]

\* max(task.task_id for task in tasks), tasks not empty
MaxId(tasks) ==
    CHOOSE m \in {tasks[i].task_id : i \in 1..Len(tasks)} :
        \A i \in 1..Len(tasks) : tasks[i].task_id <= m

\* Faulty variants: only the active tasks, or all but the deleted ones, count
update_next_task_id_ActiveOnly(active, completed, deleted) ==
    IF active # <<>> THEN MaxId(active) + 1 ELSE 1

update_next_task_id_NoDeleted(active, completed, deleted) ==
    IF active \o completed # <<>> THEN MaxId(active \o completed) + 1 ELSE 1

\* Faulty variant: the last task of the concatenation is taken for the newest
update_next_task_id_Last(active, completed, deleted) ==
    LET all_tasks == active \o completed \o deleted
    IN  IF all_tasks # <<>> THEN all_tasks[Len(all_tasks)].task_id + 1 ELSE 1

\* update_next_task_id: the value it stores in next_task_id
update_next_task_id(active, completed, deleted) ==
    LET all_tasks == active \o completed \o deleted
    IN  IF all_tasks # <<>> THEN MaxId(all_tasks) + 1 ELSE 1

\* Faulty variants: a missing file raises; a line that does not decode is
\* skipped
load_task_file_MissingRaises(file) ==
    IF file = None THEN [ok |-> FALSE, tasks |-> <<>>]
    ELSE LET lines == file[1]
             dec == [i \in 1..Len(lines) |-> from_string(lines[i])]
         IN  IF \A i \in 1..Len(lines) : dec[i].ok
             THEN [ok |-> TRUE, tasks |-> [i \in 1..Len(lines) |-> dec[i].task]]
             ELSE [ok |-> FALSE, tasks |-> <<>>]

load_task_file_SkipsBad(file) ==
    IF file = None THEN [ok |-> TRUE, tasks |-> <<>>]
    ELSE LET lines == file[1]
             dec == [i \in 1..Len(lines) |-> from_string(lines[i])]
             good == SelectSeq(dec, LAMBDA d : d.ok)
         IN  [ok |-> TRUE, tasks |-> [i \in 1..Len(good) |-> good[i].task]]

\* load_task_file: a missing file is an empty list; a line from_string
\* rejects raises out of the loop (ok = FALSE)
load_task_file(file) ==
    IF file = None THEN [ok |-> TRUE, tasks |-> <<>>]
    ELSE LET lines == file[1]
             dec == [i \in 1..Len(lines) |-> from_string(lines[i])]
         IN  IF \A i \in 1..Len(lines) : dec[i].ok
             THEN [ok |-> TRUE, tasks |-> [i \in 1..Len(lines) |-> dec[i].task]]
             ELSE [ok |-> FALSE, tasks |-> <<>>]

\* Faulty variant: the lines are written last task first
save_task_file_Reversed(tasks) ==
    Some([i \in 1..Len(tasks) |->
             to_string(tasks[Len(tasks) + 1 - i]) \o <<"\n">>])

\* save_task_file: the file is rewritten with one line per task
save_task_file(tasks) ==
    Some([i \in 1..Len(tasks) |-> to_string(tasks[i]) \o <<"\n">>])

\* Faulty variant: the completed and the deleted list go to each other's file
save_tasks_Swapped(active, completed, deleted) ==
    [fn \in FileNames |->
        IF fn = "Active.txt" THEN save_task_file(active)
        ELSE IF fn = "Completed.txt" THEN save_task_file(deleted)
        ELSE save_task_file(completed)]

\* save_tasks: the contents of the three files after it returns
save_tasks(active, completed, deleted) ==
    [fn \in FileNames |->
        IF fn = "Active.txt" THEN save_task_file(active)
        ELSE IF fn = "Completed.txt" THEN save_task_file(completed)
        ELSE save_task_file(deleted)]

\* load_tasks: the three lists are assigned in turn; an exception leaves the
\* lists not yet assigned as __init__ made them
load_tasks(fs) ==
    LET a == load_task_file(fs["Active.txt"])
        c == load_task_file(fs["Completed.txt"])
        d == load_task_file(fs["Deleted.txt"])
    IN  IF ~a.ok THEN [ok |-> FALSE, active |-> <<>>, completed |-> <<>>,
                       deleted |-> <<>>]
        ELSE IF ~c.ok THEN [ok |-> FALSE, active |-> a.tasks,
                            completed |-> <<>>, deleted |-> <<>>]
        ELSE IF ~d.ok THEN [ok |-> FALSE, active |-> a.tasks,
                            completed |-> c.tasks, deleted |-> <<>>]
        ELSE [ok |-> TRUE, active |-> a.tasks, completed |-> c.tasks,
              deleted |-> d.tasks]

\* Faulty variant: the id is taken for a position in the list
FindTask_ByPosition(tasks, task_id) ==
    IF task_id \in 1..Len(tasks) THEN task_id ELSE 0

\* next((t for t in self.active_tasks if t.task_id == task_id), None):
\* the position of the first match, 0 for None
FindTask(tasks, task_id) ==
    LET hits == {i \in 1..Len(tasks) : tasks[i].task_id = task_id}
    IN  IF hits = {} THEN 0
        ELSE CHOOSE i \in hits : \A j \in hits : i <= j

\* The first run: __init__, then initialize with no task files on disk
StoreInit ==
    /\ active_tasks = <<>>
    /\ completed_tasks = <<>>
    /\ deleted_tasks = <<>>
    /\ next_task_id = 1
    /\ files = [fn \in FileNames |-> None]
    /\ pc = "menu"
    /\ output = "How may I help you today?"
    /\ clock = 0
    /\ created_ids = <<>>
    /\ restarted = FALSE
    /\ moved_ids = <<>>

Init ==
    /\ StoreInit
    /\ codec_task = None
    /\ codec_line = None
    /\ codec_result = None

\* choice "1": add_task
AddTask(name_input) ==
    /\ pc = "menu"
    /\ next_task_id <= MaxTasks
    /\ \E t \in clock..MaxClock :
         LET task == Task(next_task_id, Strip(name_input), ActiveStr, None,
                          None, t)
         IN  /\ active_tasks' = Append(active_tasks, task)
             /\ next_task_id' = next_task_id + 1
             /\ files' = save_tasks(active_tasks', completed_tasks,
                                    deleted_tasks)
             /\ clock' = t
             /\ created_ids' = Append(created_ids, task.task_id)
    /\ output' = "Task added successfully!"
    /\ UNCHANGED <<completed_tasks, deleted_tasks, pc,
                   restarted, moved_ids, codec_vars>>

\* view_tasks: what it prints last
view_tasks(task_list, status) ==
    IF task_list = <<>>
    THEN IF status = "Active" THEN "No active tasks found."
         ELSE IF status = "Completed" THEN "No completed tasks found."
         ELSE "No deleted tasks found."
    ELSE "--------"

\* choices "2", "3", "4": view_tasks
ViewTasks(status) ==
    /\ pc = "menu"
    /\ output' = view_tasks(IF status = "Active" THEN active_tasks
                            ELSE IF status = "Completed" THEN completed_tasks
                            ELSE deleted_tasks, status)
    /\ UNCHANGED <<active_tasks, completed_tasks, deleted_tasks, next_task_id,
                   files, pc, clock, created_ids,
                   restarted, moved_ids, codec_vars>>

\* choice "5": edit_task_name
EditTaskName(id_input, name_input) ==
    /\ pc = "menu"
    /\ IF active_tasks = <<>>
       THEN /\ output' = view_tasks(active_tasks, "Active")
            /\ UNCHANGED <<active_tasks, files>>
       ELSE LET task_id == ParseInt(id_input)
                i == FindTask(active_tasks, task_id.val)
            IN  IF ~task_id.ok
                THEN /\ output' = "Invalid task ID!"
                     /\ UNCHANGED <<active_tasks, files>>
                ELSE IF i # 0
                THEN /\ active_tasks' =
                          [active_tasks EXCEPT
                              ![i] = Renamed(@, Strip(name_input))]
                     /\ files' = save_tasks(active_tasks', completed_tasks,
                                            deleted_tasks)
                     /\ output' = "Task name updated successfully!"
                ELSE /\ output' = "Task not found!"
                     /\ UNCHANGED <<active_tasks, files>>
    /\ UNCHANGED <<completed_tasks, deleted_tasks, next_task_id, pc, clock,
                   created_ids,
                   restarted, moved_ids, codec_vars>>

\* choice "6": mark_task_complete
MarkTaskComplete(id_input) ==
    /\ pc = "menu"
    /\ IF active_tasks = <<>>
       THEN /\ output' = view_tasks(active_tasks, "Active")
            /\ UNCHANGED <<active_tasks, completed_tasks, files, clock,
                           moved_ids>>
       ELSE LET task_id == ParseInt(id_input)
                i == FindTask(active_tasks, task_id.val)
            IN  IF ~task_id.ok
                THEN /\ output' = "Invalid task ID!"
                     /\ UNCHANGED <<active_tasks, completed_tasks, files,
                                    clock, moved_ids>>
                ELSE IF i # 0
                THEN \E t \in clock..MaxClock :
                       /\ completed_tasks' =
                            Append(completed_tasks,
                                   Completed(active_tasks[i], t))
                       /\ active_tasks' = RemoveAt(active_tasks, i)
                       /\ files' = save_tasks(active_tasks', completed_tasks',
                                              deleted_tasks)
                       /\ clock' = t
                       /\ moved_ids' =
                            Append(moved_ids, active_tasks[i].task_id)
                       /\ output' = "Task marked as complete!"
                ELSE /\ output' = "Task not found!"
                     /\ UNCHANGED <<active_tasks, completed_tasks, files,
                                    clock, moved_ids>>
    /\ UNCHANGED <<deleted_tasks, next_task_id, pc, created_ids,
                   restarted, codec_vars>>

\* choice "7": delete_task
DeleteTask(id_input) ==
    /\ pc = "menu"
    /\ IF active_tasks = <<>>
       THEN /\ output' = view_tasks(active_tasks, "Active")
            /\ UNCHANGED <<active_tasks, deleted_tasks, files,
                           moved_ids>>
       ELSE LET task_id == ParseInt(id_input)
                i == FindTask(active_tasks, task_id.val)
            IN  IF ~task_id.ok
                THEN /\ output' = "Invalid task ID!"
                     /\ UNCHANGED <<active_tasks, deleted_tasks, files,
                                    moved_ids>>
                ELSE IF i # 0
                THEN /\ deleted_tasks' =
                          Append(deleted_tasks, Deleted(active_tasks[i]))
                     /\ active_tasks' = RemoveAt(active_tasks, i)
                     /\ files' = save_tasks(active_tasks', completed_tasks,
                                            deleted_tasks')
                     /\ moved_ids' =
                          Append(moved_ids, active_tasks[i].task_id)
                     /\ output' = "Task deleted successfully!"
                ELSE /\ output' = "Task not found!"
                     /\ UNCHANGED <<active_tasks, deleted_tasks, files,
                                    moved_ids>>
    /\ UNCHANGED <<completed_tasks, next_task_id, pc, clock, created_ids,
                   restarted, codec_vars>>

\* choice "8": the loop ends and the process exits
ExitProgram ==
    /\ pc = "menu"
    /\ pc' = "exited"
    /\ output' = "Thank you for using Todo List Manager. Goodbye!"
    /\ UNCHANGED <<active_tasks, completed_tasks, deleted_tasks, next_task_id,
                   files, clock, created_ids,
                   restarted, moved_ids, codec_vars>>

\* Faulty variant: an unknown choice ends the loop
InvalidOption_Exits ==
    /\ pc = "menu"
    /\ pc' = "exited"
    /\ output' = "Invalid option! Please try again."
    /\ UNCHANGED <<active_tasks, completed_tasks, deleted_tasks, next_task_id,
                   files, clock, created_ids, restarted, moved_ids,
                   codec_vars>>

\* any other choice
InvalidOption ==
    /\ pc = "menu"
    /\ output' = "Invalid option! Please try again."
    /\ UNCHANGED <<active_tasks, completed_tasks, deleted_tasks, next_task_id,
                   files, pc, clock, created_ids,
                   restarted, moved_ids, codec_vars>>

\* The program is started again: __init__, then initialize from the files.
\* A line that does not decode ends the new process with a ValueError before
\* update_next_task_id and the menu.
Restart ==
    /\ pc \in {"exited", "crashed"}
    /\ LET l == load_tasks(files)
       IN  /\ active_tasks' = l.active
           /\ completed_tasks' = l.completed
           /\ deleted_tasks' = l.deleted
           /\ IF l.ok
              THEN /\ next_task_id' =
                        update_next_task_id(l.active, l.completed, l.deleted)
                   /\ pc' = "menu"
                   /\ output' = "How may I help you today?"
              ELSE /\ next_task_id' = 1
                   /\ pc' = "crashed"
                   /\ output' = "ValueError"
    /\ restarted' = TRUE
    /\ UNCHANGED <<files, clock, created_ids, moved_ids, codec_vars>>

Operation ==
    \/ \E n \in NameInputs : AddTask(n)
    \/ \E i \in IdInputs, n \in NameInputs : EditTaskName(i, n)
    \/ \E i \in IdInputs : MarkTaskComplete(i)
    \/ \E i \in IdInputs : DeleteTask(i)

Next ==
    \/ Operation
    \/ \E s \in Categories : ViewTasks(s)
    \/ InvalidOption
    \/ ExitProgram
    \/ Restart

Spec == Init /\ [][Next]_vars

\* ------------------------------------------------------- codec check
\* Valid Task values, built directly with Task(...): names hold no delimiter
SampleIds == {0 - 1, 0, 7, 10}

SampleNames == {<<>>, <<" ", "a">>, <<"b", " ">>, NoneStr}

SampleTimes == {0, 1, 20, 21}

Statuses == {ActiveStr, CompletedStr, DeletedStr}

ValidTasks ==
    {Task(i, n, st, Some(c), f, 0) :
        i \in SampleIds, n \in SampleNames, st \in Statuses,
        c \in SampleTimes, f \in {None} \cup {Some(t) : t \in SampleTimes}}

InitCodec ==
    /\ StoreInit
    /\ codec_task \in {Some(t) : t \in ValidTasks}
    /\ codec_line = None
    /\ codec_result = None

\* t.to_string()
Encode ==
    /\ codec_task # None /\ codec_line = None
    /\ codec_line' = Some(to_string(codec_task[1]))
    /\ UNCHANGED <<store_vars, codec_task, codec_result>>

\* Task.from_string(line)
Decode ==
    /\ codec_line # None /\ codec_result = None
    /\ codec_result' = Some(from_string(codec_line[1]))
    /\ UNCHANGED <<store_vars, codec_task, codec_line>>

NextCodec == Encode \/ Decode

SpecCodec == InitCodec /\ [][NextCodec]_vars

\* Only add, rename, complete and delete, in one run of the program
SpecOps == Init /\ [][Operation]_vars

\* ------------------------------------------------- interrupted save
\* Faulty variant: the active list is written last
SaveOrder_ActiveLast == <<"Completed.txt", "Deleted.txt", "Active.txt">>

\* save_tasks: the order of its three save_task_file calls
SaveOrder == <<"Active.txt", "Completed.txt", "Deleted.txt">>

\* The files when the process stops inside save_tasks: the first k - 1 files
\* of SaveOrder are rewritten, file k is truncated and holds the first j of
\* its new lines, the files after it are as they were (k = 0: none is opened)
partial_save(fs, active, completed, deleted, k, j) ==
    LET full == save_tasks(active, completed, deleted)
        pos(fn) == CHOOSE p \in 1..3 : SaveOrder[p] = fn
    IN  [fn \in FileNames |->
            IF pos(fn) < k THEN full[fn]
            ELSE IF pos(fn) = k THEN Some(SubSeq(full[fn][1], 1, j))
            ELSE fs[fn]]

\* The process stops inside the save_tasks call of an operation that has
\* changed the lists to active, completed, deleted
Killed(active, completed, deleted) ==
    /\ active_tasks' = active
    /\ completed_tasks' = completed
    /\ deleted_tasks' = deleted
    /\ \E k \in 0..3 :
         \E j \in 0..(IF k = 0 THEN 0
                       ELSE Len(save_tasks(active, completed,
                                           deleted)[SaveOrder[k]][1])) :
            files' = partial_save(files, active, completed, deleted, k, j)
    /\ pc' = "killed"
    /\ output' = "Killed"
    /\ UNCHANGED <<restarted, codec_vars>>

\* add_task, stopped inside save_tasks
KilledInAddTask(name_input) ==
    /\ pc = "menu"
    /\ next_task_id <= MaxTasks
    /\ \E t \in clock..MaxClock :
         LET task == Task(next_task_id, Strip(name_input), ActiveStr, None,
                          None, t)
         IN  /\ Killed(Append(active_tasks, task), completed_tasks,
                       deleted_tasks)
             /\ clock' = t
             /\ created_ids' = Append(created_ids, task.task_id)
    /\ next_task_id' = next_task_id + 1
    /\ UNCHANGED moved_ids

\* edit_task_name, stopped inside save_tasks
KilledInEditTaskName(id_input, name_input) ==
    /\ pc = "menu"
    /\ active_tasks # <<>>
    /\ LET task_id == ParseInt(id_input)
           i == FindTask(active_tasks, task_id.val)
       IN  /\ task_id.ok /\ i # 0
           /\ Killed([active_tasks EXCEPT
                         ![i] = Renamed(@, Strip(name_input))],
                     completed_tasks, deleted_tasks)
    /\ UNCHANGED <<next_task_id, clock, created_ids, moved_ids>>

\* mark_task_complete, stopped inside save_tasks
KilledInMarkTaskComplete(id_input) ==
    /\ pc = "menu"
    /\ active_tasks # <<>>
    /\ LET task_id == ParseInt(id_input)
           i == FindTask(active_tasks, task_id.val)
       IN  /\ task_id.ok /\ i # 0
           /\ \E t \in clock..MaxClock :
                /\ Killed(RemoveAt(active_tasks, i),
                          Append(completed_tasks,
                                 Completed(active_tasks[i], t)),
                          deleted_tasks)
                /\ clock' = t
           /\ moved_ids' = Append(moved_ids, active_tasks[i].task_id)
    /\ UNCHANGED <<next_task_id, created_ids>>

\* delete_task, stopped inside save_tasks
KilledInDeleteTask(id_input) ==
    /\ pc = "menu"
    /\ active_tasks # <<>>
    /\ LET task_id == ParseInt(id_input)
           i == FindTask(active_tasks, task_id.val)
       IN  /\ task_id.ok /\ i # 0
           /\ Killed(RemoveAt(active_tasks, i), completed_tasks,
                     Append(deleted_tasks, Deleted(active_tasks[i])))
           /\ moved_ids' = Append(moved_ids, active_tasks[i].task_id)
    /\ UNCHANGED <<next_task_id, clock, created_ids>>

NextCrash ==
    \/ Operation
    \/ \E n \in NameInputs : KilledInAddTask(n)
    \/ \E i \in IdInputs, n \in NameInputs : KilledInEditTaskName(i, n)
    \/ \E i \in IdInputs : KilledInMarkTaskComplete(i)
    \/ \E i \in IdInputs : KilledInDeleteTask(i)

\* One run of the program that may be stopped inside a save
SpecCrash == Init /\ [][NextCrash]_vars

\* -------------------------------------------------------- load check
\* The program is started on files it did not write itself: each file is
\* missing, empty, or holds one line, or a well-formed line and a second line
LoadIds == 1..MaxTasks

StatusOf(fn) ==
    IF fn = "Active.txt" THEN ActiveStr
    ELSE IF fn = "Completed.txt" THEN CompletedStr ELSE DeletedStr

\* The line to_string writes for task i of a category
GoodLine(fn, i) ==
    to_string(Task(i, <<"a">>, StatusOf(fn), Some(0),
                   IF fn = "Completed.txt" THEN Some(1) ELSE None, 0))
      \o <<"\n">>

GoodLines(fn) == {GoodLine(fn, i) : i \in LoadIds}

\* "|".join(fields) + "\n"
RECURSIVE JoinFields(_)
JoinFields(f) ==
    IF Len(f) = 1 THEN f[1] \o <<"\n">>
    ELSE f[1] \o <<Delimiter>> \o JoinFields(Tail(f))

\* Lines from_string cannot decode: four fields, six fields, no field at all,
\* an id that is no integer, a creation or completion time that is no date
BadLines(fn) ==
    {JoinFields(<<NatToStr(1), <<"a">>, StatusOf(fn), DateStr(0)>>),
     JoinFields(<<NatToStr(1), <<"a">>, <<"b">>, StatusOf(fn), DateStr(0),
                  NoneStr>>),
     <<"\n">>,
     JoinFields(<<<<"x">>, <<"a">>, StatusOf(fn), DateStr(0), NoneStr>>),
     JoinFields(<<NatToStr(1), <<"a">>, StatusOf(fn), <<"x">>, NoneStr>>),
     JoinFields(<<NatToStr(1), <<"a">>, StatusOf(fn), DateStr(0), <<"x">>>>)}

FileContents(fn) ==
    {None, Some(<<>>)}
      \cup {Some(<<l>>) : l \in GoodLines(fn) \cup BadLines(fn)}
      \cup {Some(<<GoodLine(fn, 1), l>>) :
                l \in (GoodLines(fn) \ {GoodLine(fn, 1)}) \cup BadLines(fn)}

\* No process is running; the next step is a start of the program
InitLoad ==
    /\ active_tasks = <<>>
    /\ completed_tasks = <<>>
    /\ deleted_tasks = <<>>
    /\ next_task_id = 1
    /\ \E a \in FileContents("Active.txt"),
          c \in FileContents("Completed.txt"),
          d \in FileContents("Deleted.txt") :
         files = [fn \in FileNames |->
                     IF fn = "Active.txt" THEN a
                     ELSE IF fn = "Completed.txt" THEN c ELSE d]
    /\ pc = "exited"
    /\ output = "Thank you for using Todo List Manager. Goodbye!"
    /\ clock = 0
    /\ created_ids = <<>>
    /\ restarted = FALSE
    /\ moved_ids = <<>>
    /\ codec_task = None
    /\ codec_line = None
    /\ codec_result = None

NextLoad == Restart

SpecLoad == InitLoad /\ [][NextLoad]_vars

\* ------------------------------------------------------------ properties
AllTasks == active_tasks \o completed_tasks \o deleted_tasks

Greeting == "How may I help you today?"

IdsOf(tasks) == {tasks[i].task_id : i \in 1..Len(tasks)}

\* C1: after any sequence of add, rename, complete, delete, view and restart
\* from an empty store, no two tasks in the three lists share an id.
C1_UniqueIds ==
    \A i, j \in 1..Len(AllTasks) :
        i # j => AllTasks[i].task_id # AllTasks[j].task_id

\* A task added after a restart, next to a task deleted before the restart
C1_Witness ==
    /\ restarted /\ output = "Task added successfully!"
    /\ active_tasks # <<>> /\ deleted_tasks # <<>>

\* C2: through add, rename, complete and delete, every task ever created is
\* in exactly one of the three lists, exactly once.
C2_Partition ==
    \A k \in 1..Len(created_ids) :
        Cardinality({i \in 1..Len(AllTasks) :
                        AllTasks[i].task_id = created_ids[k]}) = 1

\* One task was completed and another one deleted
C2_Witness ==
    /\ Len(created_ids) >= 2
    /\ completed_tasks # <<>> /\ deleted_tasks # <<>>

\* C3: every id add assigns is strictly greater than every id an earlier add
\* assigned, across restarts and whatever became of the earlier tasks.
C3_IdsIncrease ==
    \A i, j \in 1..Len(created_ids) : i < j => created_ids[i] < created_ids[j]

\* The holder of the largest id was deleted, the program restarted, and add
\* then assigned a new id
C3_Witness ==
    /\ restarted /\ output = "Task added successfully!"
    /\ Len(created_ids) >= 2
    /\ created_ids[Len(created_ids) - 1] \in IdsOf(deleted_tasks)
    /\ IdsOf(active_tasks) = {created_ids[Len(created_ids)]}

\* C4: in every state reached through add, rename, complete and delete,
\* save_tasks followed by load_tasks succeeds and gives back the same three
\* lists, whatever names add and rename accepted.
C4_SaveLoadRoundTrip ==
    LET l == load_tasks(save_tasks(active_tasks, completed_tasks,
                                   deleted_tasks))
    IN  /\ l.ok
        /\ l.active = active_tasks
        /\ l.completed = completed_tasks
        /\ l.deleted = deleted_tasks

\* C5: from_string(t.to_string()) equals t field for field for every valid
\* Task t, and an absent time_finished is written as the token None.
C5_RoundTrip ==
    /\ codec_result # None =>
         /\ codec_result[1].ok
         /\ codec_result[1].task = codec_task[1]
    /\ (codec_line # None /\ codec_task[1].time_finished = None) =>
         LET f == Split(codec_line[1]) IN f[Len(f)] = NoneStr

\* A task with the empty name and no time_finished has been encoded and
\* decoded
C5_Witness ==
    /\ codec_result # None
    /\ codec_task[1].task_name = <<>>
    /\ codec_task[1].time_finished = None
    /\ codec_result[1].ok /\ codec_result[1].task.time_finished = None

\* C6: time_finished is set exactly on the Completed tasks: never in the
\* active and deleted lists, always in the completed list.
C6_FinishedIffCompleted ==
    /\ \A i \in 1..Len(active_tasks) :
         /\ active_tasks[i].time_finished = None
         /\ active_tasks[i].task_status # CompletedStr
    /\ \A i \in 1..Len(deleted_tasks) :
         /\ deleted_tasks[i].time_finished = None
         /\ deleted_tasks[i].task_status # CompletedStr
    /\ \A i \in 1..Len(completed_tasks) :
         /\ completed_tasks[i].time_finished # None
         /\ completed_tasks[i].task_status = CompletedStr

\* A completed and a deleted task, loaded back from the files
C6_Witness ==
    /\ restarted /\ pc = "menu"
    /\ completed_tasks # <<>> /\ deleted_tasks # <<>>

\* C7: a task in the completed or the deleted list stays there, with the
\* same name, status and timestamps, whatever operation comes next (add,
\* rename, complete, delete, view, restart).
C7_TerminalStates ==
    [][/\ \A i \in 1..Len(completed_tasks) :
            \E j \in 1..Len(completed_tasks') :
                completed_tasks'[j] = completed_tasks[i]
       /\ \A i \in 1..Len(deleted_tasks) :
            \E j \in 1..Len(deleted_tasks') :
                deleted_tasks'[j] = deleted_tasks[i]]_vars

\* The integers the id inputs stand for
IdOf == [i \in IdInputs |-> ParseInt(i)]

\* The id typed is an integer that no active task has
Absent(id_input) ==
    /\ IdOf[id_input].ok
    /\ \A k \in 1..Len(active_tasks) :
         active_tasks[k].task_id # IdOf[id_input].val

\* The id typed is the id of an active task
Present(id_input) ==
    /\ IdOf[id_input].ok
    /\ \E k \in 1..Len(active_tasks) :
         active_tasks[k].task_id = IdOf[id_input].val

StoreUnchanged ==
    UNCHANGED <<active_tasks, completed_tasks, deleted_tasks, next_task_id,
                files>>

\* C8 as claimed: rename, complete and delete of an integer id that is not in
\* the active list (the empty list included) report NotFound and change
\* neither the lists, next_task_id nor the files.
C8_NotFoundAlways ==
    [][\A i \in IdInputs :
         (/\ Absent(i)
          /\ \/ \E n \in NameInputs : EditTaskName(i, n)
             \/ MarkTaskComplete(i)
             \/ DeleteTask(i))
         => (output' = "Task not found!" /\ StoreUnchanged)]_vars

\* C8 as amended: with a non-empty active list the three operations report
\* NotFound for an integer id that is not in it; with an empty active list
\* they print "No active tasks found." and return before an id is asked for;
\* either way the lists, next_task_id and the files are unchanged.
C8_NotFound ==
    [][\A i \in IdInputs :
         (/\ Absent(i)
          /\ \/ \E n \in NameInputs : EditTaskName(i, n)
             \/ MarkTaskComplete(i)
             \/ DeleteTask(i))
         => /\ output' = IF active_tasks = <<>> THEN "No active tasks found."
                         ELSE "Task not found!"
            /\ StoreUnchanged]_vars

\* NotFound was reported while a task is active and another one completed
C8_Witness ==
    /\ output = "Task not found!"
    /\ active_tasks # <<>> /\ completed_tasks # <<>>

\* The active task with the given id, and the list without it
TaskWithId(tasks, id) == tasks[CHOOSE i \in 1..Len(tasks) : tasks[i].task_id = id]

Others(tasks, id) == SelectSeq(tasks, LAMBDA t : t.task_id # id)

\* C9: complete(id) of an active id sets the task's status to Completed and
\* its time_finished to the current time, not earlier than time_created,
\* removes it from the active list and appends it to the completed list;
\* the other tasks and the deleted list are unchanged.
C9_Complete ==
    [][\A i \in IdInputs :
         (Present(i) /\ MarkTaskComplete(i)) =>
            LET id == IdOf[i].val
                old == TaskWithId(active_tasks, id)
            IN  /\ active_tasks' = Others(active_tasks, id)
                /\ completed_tasks' =
                     Append(completed_tasks,
                            [task_id |-> old.task_id,
                             task_name |-> old.task_name,
                             task_status |-> CompletedStr,
                             time_created |-> old.time_created,
                             time_finished |-> Some(clock')])
                /\ clock' >= clock
                /\ clock' >= old.time_created[1]
                /\ deleted_tasks' = deleted_tasks
                /\ next_task_id' = next_task_id]_vars

\* The only task, id 1, has just been completed
C9_Witness ==
    /\ output = "Task marked as complete!"
    /\ active_tasks = <<>> /\ deleted_tasks = <<>>
    /\ Len(completed_tasks) = 1
    /\ completed_tasks[1].task_id = 1
    /\ completed_tasks[1].task_status = CompletedStr
    /\ completed_tasks[1].time_finished # None

\* C10: delete(id) of an active id sets the task's status to Deleted, leaves
\* its time_finished None, removes it from the active list and appends it to
\* the deleted list; the other tasks and the completed list are unchanged.
C10_Delete ==
    [][\A i \in IdInputs :
         (Present(i) /\ DeleteTask(i)) =>
            LET id == IdOf[i].val
                old == TaskWithId(active_tasks, id)
            IN  /\ active_tasks' = Others(active_tasks, id)
                /\ deleted_tasks' =
                     Append(deleted_tasks,
                            [task_id |-> old.task_id,
                             task_name |-> old.task_name,
                             task_status |-> DeletedStr,
                             time_created |-> old.time_created,
                             time_finished |-> None])
                /\ completed_tasks' = completed_tasks
                /\ next_task_id' = next_task_id]_vars

\* A task has just been deleted while another one stays active
C10_Witness ==
    /\ output = "Task deleted successfully!"
    /\ active_tasks # <<>>
    /\ deleted_tasks # <<>>
    /\ deleted_tasks[Len(deleted_tasks)].task_status = DeletedStr
    /\ deleted_tasks[Len(deleted_tasks)].time_finished = None

\* The names the name inputs are trimmed to
Trimmed == [n \in NameInputs |-> Strip(n)]

\* C11: rename(id, new_name) of an active id changes the name of that one
\* task and nothing else: its id, status, timestamps and position, the
\* other tasks, the completed and deleted lists and next_task_id stay.
C11_RenameFrame ==
    [][\A i \in IdInputs :
         (Present(i) /\ \E n \in NameInputs : EditTaskName(i, n)) =>
            /\ Len(active_tasks') = Len(active_tasks)
            /\ \A k \in 1..Len(active_tasks) :
                 IF active_tasks[k].task_id = IdOf[i].val
                 THEN /\ active_tasks'[k].task_id = active_tasks[k].task_id
                      /\ active_tasks'[k].task_status =
                           active_tasks[k].task_status
                      /\ active_tasks'[k].time_created =
                           active_tasks[k].time_created
                      /\ active_tasks'[k].time_finished =
                           active_tasks[k].time_finished
                      /\ \E n \in NameInputs :
                           active_tasks'[k].task_name = Trimmed[n]
                 ELSE active_tasks'[k] = active_tasks[k]
            /\ UNCHANGED <<completed_tasks, deleted_tasks, next_task_id>>]_vars

\* The second of two active tasks was renamed after the clock had moved on
C11_Witness ==
    /\ output = "Task name updated successfully!"
    /\ Len(active_tasks) = 2
    /\ active_tasks[1].task_name = <<>>
    /\ active_tasks[2].task_name # <<>>
    /\ active_tasks[1].time_created # active_tasks[2].time_created

\* C12: add(name) appends to the active list a task with id next_task_id,
\* the trimmed name, status Active, time_created now and no time_finished,
\* adds 1 to next_task_id and leaves the other lists alone.
C12_Add ==
    [][\A n \in NameInputs :
         AddTask(n) =>
            /\ active_tasks' =
                 Append(active_tasks,
                        [task_id |-> next_task_id,
                         task_name |-> Trimmed[n],
                         task_status |-> ActiveStr,
                         time_created |-> Some(clock'),
                         time_finished |-> None])
            /\ next_task_id' = next_task_id + 1
            /\ UNCHANGED <<completed_tasks, deleted_tasks, pc>>]_vars

\* The empty store after one add of a blank name: one active task, id 1
C12_Witness ==
    /\ output = "Task added successfully!"
    /\ completed_tasks = <<>> /\ deleted_tasks = <<>>
    /\ Len(active_tasks) = 1
    /\ active_tasks[1].task_id = 1
    /\ active_tasks[1].task_name = <<>>
    /\ active_tasks[1].task_status = ActiveStr
    /\ active_tasks[1].time_finished = None
    /\ next_task_id = 2

\* Text that int() rejects: it has a character that is no digit, sign or
\* whitespace
NotANumber(s) ==
    \E k \in 1..Len(s) :
        ~IsDigit(s[k]) /\ s[k] \notin Whitespace \cup {"-", "+"}

BadIds == {i \in IdInputs : NotANumber(i)}

\* C13: rename, complete and delete, asked for an id (the active list is not
\* empty) and given text that is no integer, report InvalidInput, which is
\* not NotFound, change neither the lists, next_task_id nor the files, and
\* the menu is shown again.
C13_InvalidInput ==
    [][\A i \in BadIds :
         (/\ active_tasks # <<>>
          /\ \/ \E n \in NameInputs : EditTaskName(i, n)
             \/ MarkTaskComplete(i)
             \/ DeleteTask(i))
         => /\ output' = "Invalid task ID!"
            /\ output' # "Task not found!"
            /\ StoreUnchanged
            /\ pc' = "menu"]_vars

\* InvalidInput was reported while a task is active
C13_Witness ==
    /\ output = "Invalid task ID!"
    /\ active_tasks # <<>>
    /\ pc = "menu"

\* C14: from the menu the loop ends exactly on choice "8"; after every other
\* choice, recognised or not and whatever its outcome, the menu is read
\* again; an unrecognised choice changes no list, counter or file.
C14_LoopEndsOnExit ==
    [][pc = "menu" =>
         /\ (pc' # "menu") <=> ExitProgram
         /\ InvalidOption => StoreUnchanged]_vars

\* The loop went on after NotFound and after an unrecognised choice, and
\* has now ended on choice "8"
C14_Witness ==
    /\ pc = "exited"
    /\ output = "Thank you for using Todo List Manager. Goodbye!"
    /\ active_tasks # <<>> /\ completed_tasks # <<>>

\* C16: whenever the menu is waiting for a choice, next_task_id is 1 + the
\* largest id in the three lists, or 1 when the three lists are empty.
C16_NextIdAtMenu ==
    pc = "menu" =>
        next_task_id = IF AllTasks = <<>> THEN 1 ELSE MaxId(AllTasks) + 1

\* Back at the menu after a restart, with the largest id in the deleted
\* list and a smaller one still active
C16_Witness ==
    /\ pc = "menu" /\ restarted
    /\ active_tasks # <<>> /\ deleted_tasks # <<>>
    /\ MaxId(deleted_tasks) > MaxId(active_tasks)
    /\ output = "Task name updated successfully!"

\* The lines of a file, a missing file counting as empty
LinesOf(fn) == IF files[fn] = None THEN <<>> ELSE files[fn][1]

\* The encoded lines of a list, in list order
EncodedLines(tasks) == [i \in 1..Len(tasks) |-> to_string(tasks[i]) \o <<"\n">>]

\* C17: whenever the menu is waiting for a choice, each file holds exactly the
\* encoded lines of its list, in list order (a missing file counts as empty);
\* once an operation has succeeded all three files have been written.
C17_WriteThrough ==
    pc = "menu" =>
        /\ LinesOf("Active.txt") = EncodedLines(active_tasks)
        /\ LinesOf("Completed.txt") = EncodedLines(completed_tasks)
        /\ LinesOf("Deleted.txt") = EncodedLines(deleted_tasks)
        /\ created_ids # <<>> => \A fn \in FileNames : files[fn] # None

\* A completion has just been written: one task in Completed.txt, none in
\* Deleted.txt, which exists all the same
C17_Witness ==
    /\ pc = "menu"
    /\ output = "Task marked as complete!"
    /\ Len(completed_tasks) = 1 /\ deleted_tasks = <<>>
    /\ files["Deleted.txt"] = Some(<<>>)
    /\ Len(LinesOf("Completed.txt")) = 1

\* The position of an id in the history of moves out of the active list
MovedPos(id) == CHOOSE k \in 1..Len(moved_ids) : moved_ids[k] = id

\* The tasks of a list were moved, and stand in the order they were moved in
InMoveOrder(tasks) ==
    /\ \A i \in 1..Len(tasks) :
         \E k \in 1..Len(moved_ids) : moved_ids[k] = tasks[i].task_id
    /\ \A i, j \in 1..Len(tasks) :
         i < j => MovedPos(tasks[i].task_id) < MovedPos(tasks[j].task_id)

\* C19: in every reachable state the active list is in strictly increasing
\* id order, and the completed and the deleted list hold their tasks in the
\* order in which they were completed or deleted.
C19_Order ==
    /\ \A i, j \in 1..Len(active_tasks) :
         i < j => active_tasks[i].task_id < active_tasks[j].task_id
    /\ InMoveOrder(completed_tasks)
    /\ InMoveOrder(deleted_tasks)

\* After a restart: two tasks completed, the one with the larger id first
C19_Witness ==
    /\ restarted /\ pc = "menu"
    /\ Len(completed_tasks) = 2
    /\ completed_tasks[1].task_id > completed_tasks[2].task_id

\* A line the decoder must reject: not five fields, an id that is no
\* integer, or a time that is no date
Malformed(line) ==
    LET f == Split(Strip(line))
    IN  \/ Len(f) # 5
        \/ ~ParseInt(f[1]).ok
        \/ ~ParseDate(f[4]).ok
        \/ (f[5] # NoneStr /\ ~ParseDate(f[5]).ok)

HasMalformed(fn) ==
    files[fn] # None /\ \E k \in 1..Len(files[fn][1]) :
                            Malformed(files[fn][1][k])

\* The tasks the lines of a file stand for
DecodedFile(fn) ==
    IF files[fn] = None THEN <<>>
    ELSE [k \in 1..Len(files[fn][1]) |-> from_string(files[fn][1][k]).task]

\* C15: a start with any subset of the three files missing raises no error:
\* a missing file gives an empty list, the files that exist are loaded line
\* by line, and next_task_id is 1 + the largest id loaded (1 when none).
C15_MissingFiles ==
    (restarted /\ \A fn \in FileNames : ~HasMalformed(fn)) =>
        /\ pc = "menu" /\ output = Greeting
        /\ active_tasks = DecodedFile("Active.txt")
        /\ completed_tasks = DecodedFile("Completed.txt")
        /\ deleted_tasks = DecodedFile("Deleted.txt")
        /\ next_task_id = IF AllTasks = <<>> THEN 1 ELSE MaxId(AllTasks) + 1

\* Started with Active.txt and Deleted.txt missing and two tasks in
\* Completed.txt
C15_Witness ==
    /\ restarted /\ pc = "menu"
    /\ files["Active.txt"] = None /\ files["Deleted.txt"] = None
    /\ active_tasks = <<>> /\ deleted_tasks = <<>>
    /\ Len(completed_tasks) = 2
    /\ next_task_id = 3

\* C18: a start with a malformed line in any of the three files does not
\* reach the menu: it ends with the decode error, and no file is written.
C18_MalformedAborts ==
    [][(\E fn \in FileNames : HasMalformed(fn)) =>
         /\ pc' = "crashed" /\ output' = "ValueError"
         /\ UNCHANGED files]_vars

\* A start has failed on the second line of the last file read, the other
\* two files being well-formed
C18_Witness ==
    /\ restarted /\ pc = "crashed"
    /\ ~HasMalformed("Active.txt") /\ ~HasMalformed("Completed.txt")
    /\ active_tasks # <<>> /\ completed_tasks # <<>>
    /\ files["Deleted.txt"] # None
    /\ Len(files["Deleted.txt"][1]) = 2
    /\ ~Malformed(files["Deleted.txt"][1][1])
    /\ Malformed(files["Deleted.txt"][1][2])

\* The ids at the head of the lines of a file
FileIds(fn) ==
    {ParseInt(Split(LinesOf(fn)[k])[1]).val : k \in 1..Len(LinesOf(fn))}

InNoFile(id) == \A fn \in FileNames : id \notin FileIds(fn)

\* C20: when the process is stopped inside save_tasks, between two file
\* writes or with a file truncated to a prefix of its lines, the files having
\* matched the lists before the operation, no id is in two of the three files.
C20_NoIdInTwoFiles ==
    pc = "killed" =>
        \A f, g \in FileNames : f # g => FileIds(f) \cap FileIds(g) = {}

\* Stopped while completing a second task, after Active.txt was rewritten
\* and before Completed.txt was: the task is in no file, the task completed
\* before it still is in Completed.txt
C20_Witness ==
    /\ pc = "killed"
    /\ Len(moved_ids) = 2
    /\ InNoFile(moved_ids[2])
    /\ moved_ids[1] \in FileIds("Completed.txt")
    /\ Len(completed_tasks) = 2
====
